---- MODULE Spec2Model ----
(***************************************************************************)
(* Session model of rag_multi_gemini.py (DocumentChatApp).                 *)
(*                                                                         *)
(* Streamlit executes main() from the top on every interaction: a fresh    *)
(* DocumentChatApp is constructed (documents = [], eval_model = None) and  *)
(* run() is executed against st.session_state, which is the only state     *)
(* that survives from one run to the next.                                 *)
(*                                                                         *)
(* Python strings are sequences of atoms; an atom is either a single       *)
(* character or a literal piece of text of the program.  None, where a     *)
(* string is expected, is the one-atom sequence NoneStr.                   *)
(***************************************************************************)
EXTENDS Naturals, Sequences, FiniteSets, TLC

\* ---------------------------------------------------------------- bounds
NumFiles == 5      \* .txt files present in txt_files
MaxLen   == 3      \* characters in the text returned by the chat engine
MaxTurns == 1      \* question/answer pairs the history may hold

\* ------------------------------------------------------------- constants
MaxDocs == 4       \* len(selected_files) > 4, selected_files[:4]

\* ------------------------------------------------------------------ data
Chars == {"a", " "}
Whitespace == {" "}

NoneStr == <<"<None>">>
EmptyStr == <<>>

Fallback == <<"I couldn't find a relevant response. Could you rephrase your question?">>
GenErrPrefix == <<"An error occurred: ">>
EvalErrPrefix == <<"Evaluation failed: ">>
Boom == <<"boom">>                     \* str(e) of an exception of a service
EvalReply == <<"Overall Score: 7/10">> \* str(self.eval_model.complete(...))
Prompts == {<<"q">>}

TruncationWarning == "You selected more than 4 documents. Only the first 4 will be considered."
SelectInfo == "Please select at least one document."
LoadError == "Failed to load the selected documents. Please try again."
LoadSuccess == "documents loaded successfully!"
NoEngineInfo == "Please select and load documents to start chatting."

Models == {"Gemini 1.5 Pro", "Gemini 2.0 Flash"}
DefaultModel == "Gemini 1.5 Pro"
DefaultTemperature == 3                \* tenths
\* The temperature only reaches the Gemini constructor of _initialize_models,
\* which keeps no state here: the slider is left where it starts.
Temperatures == {DefaultTemperature}

RECURSIVE Descending(_)
Descending(n) == IF n = 0 THEN <<>> ELSE <<n>> \o Descending(n - 1)

\* The multiselect returns the chosen options in the order they were chosen:
\* nothing, one file, as many as the limit allows, or every file.
SelectionSizes == {0, 1, MaxDocs, NumFiles}
Selections == {SubSeq(Descending(NumFiles), 1, k) : k \in SelectionSizes}

TextsOfLen(n) == [1..n -> Chars]
Texts == UNION {TextsOfLen(n) : n \in 0..MaxLen}

\* What chat_engine.query(prompt) can do: raise, return a falsy response,
\* or return a response whose str() is a text.
QueryOutcomes ==
    {[kind |-> "raise", text |-> Boom], [kind |-> "none", text |-> EmptyStr]}
        \cup {[kind |-> "text", text |-> t] : t \in Texts}

NoIndex == [built |-> FALSE, docs |-> <<>>]
Index(docs) == [built |-> TRUE, docs |-> docs]

AbsentEngine == [state |-> "absent", docs |-> <<>>]
NoEngine == [state |-> "none", docs |-> <<>>]
Engine(index) == [state |-> "engine", docs |-> index.docs]

NoModel == "None"
EvalModelName == "models/gemini-2.0-flash-exp"

VARIABLES
    pc,                 \* position of the script run
    messages,           \* st.session_state.messages
    conversation_context,
    vector_index,       \* st.session_state.vector_index
    chat_engine,        \* st.session_state.chat_engine (may be absent)
    selected_model,
    temperature,
    selected_files,
    enable_evaluation,
    documents,          \* self.documents
    eval_model,         \* self.eval_model
    prompt,             \* local of _process_user_input
    full_response,      \* local of _process_user_input
    evaluation,         \* local of _process_user_input
    gen,                \* the generator object of _response_generator
    upToDate,           \* the stored selection and model are those of the last
                        \* run that published an index and its chat engine
                        \* (observation only)
    obs                 \* what the run has done so far (observation only)

vars == <<pc, messages, conversation_context, vector_index, chat_engine,
          selected_model, temperature, selected_files, enable_evaluation,
          documents, eval_model, prompt, full_response, evaluation, gen,
          upToDate, obs>>

session == <<messages, conversation_context, vector_index, chat_engine,
             selected_model, temperature, selected_files, enable_evaluation>>
turn == <<prompt, full_response, evaluation, gen>>

\* ------------------------------------------------------- pure functions
RECURSIVE Concat(_)
Concat(ss) == IF ss = <<>> THEN <<>> ELSE Head(ss) \o Concat(Tail(ss))

RECURSIVE SplitFrom(_, _)
\* str.split(): the maximal runs of non-whitespace characters, in order.
SplitFrom(s, word) ==
    IF s = <<>>
    THEN IF word = <<>> THEN <<>> ELSE <<word>>
    ELSE IF Head(s) \in Whitespace
         THEN IF word = <<>> THEN SplitFrom(Tail(s), <<>>)
              ELSE <<word>> \o SplitFrom(Tail(s), <<>>)
         ELSE SplitFrom(Tail(s), Append(word, Head(s)))

Split(s) == SplitFrom(s, <<>>)

\* not str(response).strip()
IsBlank(s) == \A i \in 1..Len(s) : s[i] \in Whitespace

TruncateLast(files) ==
    IF Len(files) > MaxDocs
    THEN SubSeq(files, Len(files) - MaxDocs + 1, Len(files)) ELSE files

\* selected_files[:4] behind the len(selected_files) > 4 test
Truncate(files) ==
    IF Len(files) > MaxDocs THEN SubSeq(files, 1, MaxDocs) ELSE files

\* st.warning of the len(selected_files) > 4 branch
TruncationWarnings(files) ==
    IF Len(files) > MaxDocs THEN {TruncationWarning} ELSE {}

\* _create_vector_index: the index over self.documents, or None on error
CreateVectorIndex(docs, ok) == IF ok THEN Index(docs) ELSE NoIndex

GeneratorYieldsFallThrough(outcome) ==
    IF outcome.kind = "raise" THEN <<GenErrPrefix \o outcome.text, Fallback>>
    ELSE IF outcome.kind = "none" \/ IsBlank(outcome.text) THEN <<Fallback>>
    ELSE [i \in 1..Len(Split(outcome.text)) |-> Split(outcome.text)[i] \o <<" ">>]

\* The items _response_generator yields, in order, for one outcome of query.
GeneratorYields(outcome) ==
    IF outcome.kind = "raise" THEN <<GenErrPrefix \o outcome.text>>
    ELSE IF outcome.kind = "none" \/ IsBlank(outcome.text) THEN <<Fallback>>
    ELSE [i \in 1..Len(Split(outcome.text)) |-> Split(outcome.text)[i] \o <<" ">>]

\* st.session_state.enable_evaluation and self.eval_model
ShouldEvaluate(enabled, model) == enabled /\ model # NoModel

StreamConsumedEarly(g) == g.state = "running"

\* the loop "for word in self._response_generator(prompt)" has ended
StreamConsumed(g) == g.state = "running" /\ g.pending = <<>>

\* _evaluate_response: the reply, or the diagnostic of the except branch
EvaluateResponse(ok) == IF ok THEN EvalReply ELSE EvalErrPrefix \o Boom

StoredEvaluationUnconditional(enabled, ev) == ev

\* "evaluation": evaluation if st.session_state.enable_evaluation else None
StoredEvaluation(enabled, ev) == IF enabled THEN ev ELSE NoneStr

\* not hasattr(st.session_state, 'chat_engine') or not st.session_state.chat_engine
EngineMissing(engine) == engine.state # "engine"

UserMessageAsAssistant(p) == [role |-> "assistant", content |-> p]

UserMessage(p) == [role |-> "user", content |-> p]
AssistantMessage(content, ev) ==
    [role |-> "assistant", content |-> content, evaluation |-> ev]

NewGen == [state |-> "created", pending |-> <<>>, yielded |-> <<>>]
NoGen == [state |-> "none", pending |-> <<>>, yielded |-> <<>>]

ObsInit ==
    [ui |-> {}, cleared |-> FALSE,
     unchanged |-> FALSE, docsRan |-> FALSE,
     loadCalls |-> 0, loadArg |-> <<>>, buildCalls |-> 0, buildArg |-> <<>>,
     loadFailed |-> FALSE, buildFailed |-> FALSE, stopped |-> FALSE,
     asked |-> FALSE,
     queryCalls |-> 0, outcome |-> "", evalCalls |-> 0, evalOutcome |-> ""]

\* ------------------------------------------------------------------ Init
Init ==
    /\ pc = "idle"
    /\ messages = <<>>
    /\ conversation_context = "None"
    /\ vector_index = NoIndex
    /\ chat_engine = AbsentEngine
    /\ selected_model = DefaultModel
    /\ temperature = DefaultTemperature
    /\ selected_files = <<>>
    /\ enable_evaluation = TRUE
    /\ documents = <<>>
    /\ eval_model = NoModel
    /\ prompt = EmptyStr
    /\ full_response = EmptyStr
    /\ evaluation = EmptyStr
    /\ gen = NoGen
    /\ upToDate = FALSE
    /\ obs = ObsInit

\* --------------------------------------------------------------- actions
\* main(): DocumentChatApp(), then run() up to and including
\* _setup_sidebar and _initialize_session_state.
Rerun ==
    /\ pc = "idle"
    /\ \E m \in Models, t \in Temperatures, f \in Selections,
          e \in BOOLEAN, clear \in BOOLEAN :
          /\ documents' = <<>>
          /\ eval_model' = NoModel
          /\ selected_model' = m
          /\ temperature' = t
          /\ selected_files' = f
          /\ enable_evaluation' = e
          /\ IF clear
             THEN /\ messages' = <<>>
                  /\ conversation_context' = "None"
                  /\ vector_index' = NoIndex
             ELSE UNCHANGED <<messages, conversation_context, vector_index>>
          /\ obs' = [ObsInit EXCEPT
                        !.cleared = clear,
                        !.unchanged = /\ upToDate
                                      /\ f = selected_files
                                      /\ m = selected_model]
          /\ upToDate' = (upToDate /\ f = selected_files /\ m = selected_model)
    /\ pc' = "docs"
    /\ UNCHANGED <<chat_engine, turn>>

\* _process_local_documents, with _load_local_documents, _initialize_models,
\* _create_vector_index and _initialize_chat_engine.
ProcessLocalDocuments ==
    /\ pc = "docs"
    /\ LET before == [obs EXCEPT !.docsRan = TRUE]
       IN
       IF selected_files = <<>>
       THEN /\ obs' = [before EXCEPT !.ui = @ \cup {SelectInfo}]
            /\ pc' = "input"
            /\ UNCHANGED <<vector_index, chat_engine, documents, eval_model,
                           upToDate>>
       ELSE
         LET files == Truncate(selected_files)
             warned == [before EXCEPT
                          !.ui = @ \cup TruncationWarnings(selected_files),
                          !.loadCalls = @ + 1,
                          !.loadArg = files]
         IN
         \E loadOK \in BOOLEAN, modelsOK \in BOOLEAN,
            indexOK \in BOOLEAN, engineOK \in BOOLEAN :
            /\ documents' = IF loadOK THEN files ELSE <<>>
            /\ IF documents' = <<>>
               THEN /\ obs' = [warned EXCEPT !.ui = @ \cup {LoadError},
                                             !.loadFailed = TRUE]
                    /\ pc' = "input"
                    /\ UNCHANGED <<vector_index, chat_engine, eval_model,
                                   upToDate>>
               ELSE IF ~modelsOK
               THEN /\ obs' = [warned EXCEPT !.stopped = TRUE]   \* st.stop()
                    /\ pc' = "end"
                    /\ UNCHANGED <<vector_index, chat_engine, eval_model,
                                   upToDate>>
               ELSE /\ eval_model' = EvalModelName
                    /\ vector_index' = CreateVectorIndex(documents', indexOK)
                    /\ IF vector_index'.built
                       THEN /\ chat_engine' = IF engineOK
                                               THEN Engine(vector_index')
                                               ELSE NoEngine
                            /\ obs' = [warned EXCEPT
                                          !.ui = @ \cup {LoadSuccess},
                                          !.buildCalls = @ + 1,
                                          !.buildArg = documents']
                            /\ upToDate' = engineOK
                       ELSE /\ obs' = [warned EXCEPT
                                          !.buildCalls = @ + 1,
                                          !.buildArg = documents',
                                          !.buildFailed = TRUE]
                            /\ UNCHANGED <<chat_engine, upToDate>>
                    /\ pc' = "input"
    /\ UNCHANGED <<messages, conversation_context, selected_model,
                   temperature, selected_files, enable_evaluation, turn>>

\* _process_user_input: no usable chat engine in session state.
NoChatEngine ==
    /\ pc = "input"
    /\ EngineMissing(chat_engine)
    /\ obs' = [obs EXCEPT !.ui = @ \cup {NoEngineInfo}]
    /\ pc' = "end"
    /\ UNCHANGED <<session, documents, eval_model, turn, upToDate>>

\* _process_user_input: st.chat_input returned nothing in this run.
NoPrompt ==
    /\ pc = "input"
    /\ ~EngineMissing(chat_engine)
    /\ pc' = "end"
    /\ UNCHANGED <<session, documents, eval_model, turn, upToDate, obs>>

\* _process_user_input: a question was submitted; the user message is
\* appended and the generator object is created (not yet started).
SubmitPrompt ==
    /\ pc = "input"
    /\ ~EngineMissing(chat_engine)
    /\ Len(messages) < 2 * MaxTurns
    /\ \E p \in Prompts :
          /\ messages' = Append(messages, UserMessage(p))
          /\ prompt' = p
    /\ full_response' = EmptyStr
    /\ evaluation' = EmptyStr
    /\ gen' = NewGen
    /\ obs' = [obs EXCEPT !.asked = TRUE]
    /\ pc' = "stream"
    /\ UNCHANGED <<conversation_context, vector_index, chat_engine,
                   selected_model, temperature, selected_files,
                   enable_evaluation, documents, eval_model, upToDate>>

\* First iteration of the for loop: the generator body starts, calls
\* chat_engine.query and runs to its first yield.
FirstToken ==
    /\ pc = "stream"
    /\ gen.state = "created"
    /\ \E outcome \in QueryOutcomes :
          LET ys == GeneratorYields(outcome) IN
          /\ gen' = [state |-> "running", pending |-> Tail(ys),
                     yielded |-> <<Head(ys)>>]
          /\ full_response' = full_response \o Head(ys)
          /\ obs' = [obs EXCEPT !.queryCalls = @ + 1,
                                !.outcome = outcome.kind]
    /\ UNCHANGED <<pc, session, documents, eval_model, prompt, evaluation,
                   upToDate>>

\* A later iteration of the for loop: the generator yields its next item.
NextToken ==
    /\ pc = "stream"
    /\ gen.state = "running"
    /\ gen.pending # <<>>
    /\ gen' = [gen EXCEPT !.pending = Tail(@),
                          !.yielded = Append(@, Head(gen.pending))]
    /\ full_response' = full_response \o Head(gen.pending)
    /\ UNCHANGED <<pc, session, documents, eval_model, prompt, evaluation,
                   upToDate, obs>>

\* The for loop has ended: evaluation = ""; the if of lines 328-334.
Evaluate ==
    /\ pc = "stream"
    /\ StreamConsumed(gen)
    /\ gen' = [gen EXCEPT !.state = "done"]
    /\ IF ShouldEvaluate(enable_evaluation, eval_model)
       THEN \E ok \in BOOLEAN :
              /\ evaluation' = EvaluateResponse(ok)
              /\ obs' = [obs EXCEPT !.evalCalls = @ + 1,
                                    !.evalOutcome = IF ok THEN "ok" ELSE "raise"]
       ELSE /\ evaluation' = EmptyStr
            /\ UNCHANGED obs
    /\ pc' = "append"
    /\ UNCHANGED <<session, documents, eval_model, prompt, full_response,
                   upToDate>>

\* st.session_state.messages.append({... assistant ...})
AppendAssistant ==
    /\ pc = "append"
    /\ messages' = Append(messages,
                          AssistantMessage(full_response,
                              StoredEvaluation(enable_evaluation, evaluation)))
    /\ pc' = "end"
    /\ UNCHANGED <<conversation_context, vector_index, chat_engine,
                   selected_model, temperature, selected_files,
                   enable_evaluation, documents, eval_model, turn, upToDate,
                   obs>>

\* The script run is over; the app object and its locals are dropped.
EndRun ==
    /\ pc = "end"
    /\ pc' = "idle"
    /\ documents' = <<>>
    /\ eval_model' = NoModel
    /\ prompt' = EmptyStr
    /\ full_response' = EmptyStr
    /\ evaluation' = EmptyStr
    /\ gen' = NoGen
    /\ obs' = ObsInit
    /\ UNCHANGED <<session, upToDate>>

Next ==
    \/ Rerun
    \/ ProcessLocalDocuments
    \/ NoChatEngine
    \/ NoPrompt
    \/ SubmitPrompt
    \/ FirstToken
    \/ NextToken
    \/ Evaluate
    \/ AppendAssistant
    \/ EndRun

Spec == Init /\ [][Next]_vars

TypeOK ==
    /\ pc \in {"idle", "docs", "input", "stream", "append", "end"}
    /\ Len(messages) <= 2 * MaxTurns
    /\ selected_files \in Selections

Last(s) == s[Len(s)]
GenDiagnostic == GenErrPrefix \o Boom
EvalDiagnostic == EvalErrPrefix \o Boom

\* ------------------------------------------------------------------ C1
\* C1: the evaluator is called only in a turn whose enable_evaluation is
\* true, and only once the generator has been started and has nothing left
\* to yield, the answer text being the concatenation of everything it
\* yielded; while tokens are still being streamed no evaluation call has
\* been made.
EvaluationOnlyAfterStream ==
    /\ pc = "stream" => obs.evalCalls = 0
    /\ obs.evalCalls > 0 =>
          /\ enable_evaluation
          /\ gen.pending = <<>>
          /\ Len(gen.yielded) >= 1
          /\ obs.queryCalls = 1
          /\ full_response = Concat(gen.yielded)

EvaluatedAfterTwoTokens ==
    /\ obs.evalCalls = 1
    /\ Len(gen.yielded) = 2
    /\ pc = "append"

\* ------------------------------------------------------------------ C2
\* C2: when a turn has completed, the content of the appended assistant
\* message is the concatenation of the streamed tokens, whatever the
\* evaluation did; with evaluation disabled the stored report is None, and
\* when the evaluation call raised, the report is the diagnostic string.
AnswerIndependentOfEvaluation ==
    (pc = "end" /\ obs.asked) =>
        /\ Len(messages) >= 2
        /\ Last(messages).role = "assistant"
        /\ Last(messages).content = Concat(gen.yielded)
        /\ gen.pending = <<>>
        /\ ~enable_evaluation => Last(messages).evaluation = NoneStr
        /\ obs.evalOutcome = "raise" =>
              Last(messages).evaluation = EvalDiagnostic
        /\ obs.evalOutcome = "ok" => Last(messages).evaluation = EvalReply

TurnCompletedAfterFailedEvaluation ==
    /\ pc = "end"
    /\ obs.asked
    /\ obs.evalOutcome = "raise"
    /\ Last(messages).content = <<"a", " ", "a", " ">>

\* ------------------------------------------------------------------ C3
\* C3: while the document selection is empty no question is taken and
\* nothing is passed to the chat engine.
NoAnswerWithoutSelection ==
    (pc # "idle" /\ selected_files = <<>>) =>
        (~obs.asked /\ obs.queryCalls = 0)

\* ------------------------------------------------------------------ C4
FailedBuildStep ==
    (pc = "docs" /\ (obs'.loadFailed \/ obs'.buildFailed)) =>
        /\ vector_index' = vector_index
        /\ chat_engine' = chat_engine

\* C4: a run of _process_local_documents whose document load or index
\* construction fails leaves the index and the chat engine in session state
\* as it found them.
FailedBuildKeepsIndex == [][FailedBuildStep]_vars

\* ------------------------------------------------------------------ C5
\* C5: in a run that started with Clear Conversation, unless an index is
\* built in that run, the history is empty, there is no index and no chat
\* engine, and no question is answered.
ClearResetsToIdle ==
    (pc # "idle" /\ obs.cleared /\ obs.buildCalls = 0) =>
        /\ ~vector_index.built
        /\ EngineMissing(chat_engine)
        /\ obs.queryCalls = 0

\* ------------------------------------------------------------------ C6
\* C6: if chat_engine.query raised, the generator yields exactly one item,
\* the diagnostic with the error text, and ends; query was called once; and
\* the run ends with the assistant message holding that diagnostic.
GenerationErrorYieldsOneDiagnostic ==
    obs.outcome = "raise" =>
        /\ gen.yielded = <<GenDiagnostic>>
        /\ gen.pending = <<>>
        /\ obs.queryCalls = 1
        /\ pc \in {"stream", "append", "end"}
        /\ pc = "end" =>
              /\ Last(messages).role = "assistant"
              /\ Last(messages).content = GenDiagnostic
              /\ messages[Len(messages) - 1] = UserMessage(prompt)

TurnEndedAfterGenerationError ==
    /\ pc = "end"
    /\ obs.outcome = "raise"
    /\ Len(messages) = 2

\* ------------------------------------------------------------------ C7
\* C7: a selection of more than 4 files is loaded as its first 4 files, in
\* selection order, with the truncation warning; a selection of 1 to 4
\* files is loaded whole, without the warning; an index is only ever built
\* from the 1 to 4 files that were loaded.
AtMostFourDocuments ==
    obs.docsRan =>
        /\ Len(selected_files) > 4 =>
              /\ obs.loadCalls = 1
              /\ obs.loadArg = SubSeq(selected_files, 1, 4)
              /\ TruncationWarning \in obs.ui
        /\ Len(selected_files) \in 1..4 =>
              /\ obs.loadCalls = 1
              /\ obs.loadArg = selected_files
              /\ TruncationWarning \notin obs.ui
        /\ obs.buildCalls > 0 =>
              /\ obs.buildArg = obs.loadArg
              /\ Cardinality({obs.buildArg[i] : i \in 1..Len(obs.buildArg)})
                    \in 1..4

TruncatedSelectionIndexed ==
    /\ obs.docsRan
    /\ Len(selected_files) > 4
    /\ obs.buildCalls = 1
    /\ vector_index = Index(SubSeq(selected_files, 1, 4))

\* ------------------------------------------------------------------ C8
\* C8: a run in which a question is submitted while the document and model
\* selection are those of the last successful build loads no document and
\* builds no index.
BuildOnlyOnSelectionChange ==
    (obs.unchanged /\ ~obs.cleared /\ obs.asked) =>
        (obs.loadCalls = 0 /\ obs.buildCalls = 0)

\* ------------------------------------------------------------------ C9
\* C9: a turn answered with evaluation enabled calls the evaluator exactly
\* once and stores its reply or its diagnostic as the report.
EnabledEvaluationAlwaysRuns ==
    (pc = "end" /\ obs.asked /\ enable_evaluation) =>
        /\ obs.evalCalls = 1
        /\ Last(messages).evaluation \in {EvalReply, EvalDiagnostic}

\* ----------------------------------------------------------------- C10
IsPairs(h) ==
    /\ Len(h) % 2 = 0
    /\ \A i \in 1..Len(h) :
          h[i].role = IF i % 2 = 1 THEN "user" ELSE "assistant"

HistoryChange ==
    messages' # messages =>
        \/ pc = "idle" /\ messages' = <<>>
        \/ /\ pc = "input"
           /\ IsPairs(messages)
           /\ \E p \in Prompts :
                 messages' = Append(messages, [role |-> "user", content |-> p])
        \/ /\ pc = "append"
           /\ Len(messages') = Len(messages) + 1
           /\ SubSeq(messages', 1, Len(messages)) = messages
           /\ Last(messages).role = "user"
           /\ Last(messages').role = "assistant"
           /\ Last(messages').content = Concat(gen.yielded)
           /\ pc' = "end"

====
